---- MODULE Spec2Model ----
(***************************************************************************)
(* Ai-Email-Sticky.py: the mailbox ingestion pipeline (GmailPoller), the   *)
(* sqlite persistence layer (tasks, processed_uids, metadata) and the      *)
(* lifecycle operations the Tk front end issues against it.                *)
(*                                                                         *)
(* Threads: thread 0 is the GmailPoller thread started by StickyUI; the    *)
(* threads 1..MaxManual are the workers StickyUI.poll_now spawns; the Tk   *)
(* main loop is one more thread (ui).  Every sqlite statement commits on   *)
(* its own connection, so each statement is one atomic step and the steps  *)
(* of different threads interleave freely.                                 *)
(*                                                                         *)
(* Message UIDs are the positive integers the IMAP server assigns; the     *)
(* code keeps them as decimal strings and compares them through int(), a   *)
(* lossless round trip for the server's canonical decimals, so they are    *)
(* integers here.  Timestamps are integer clock ticks (utcnow().isoformat()*)
(* and fromisoformat() are inverse of each other); NULL is the SQL NULL.   *)
(***************************************************************************)
EXTENDS Integers, Sequences, FiniteSets, TLC

\* ----------------------------------------------------------------- bounds
MaxUid == 2
MaxTasks == 3
MaxManual == 1
MaxTime == 2

\* Retention window in clock ticks (config [app] retention_hours).
RetentionW == 1

NULL == -1

Uids == 1..MaxUid
Threads == 0..MaxManual
Manual == 1..MaxManual
Times == 0..MaxTime

Labels == {"actionable", "fyi", "marketing"}
Modes == {"ON", "OFF", "FALLBACK"}
NoMode == "None"

\* config.ini as read once by load_config: the sections the poller consumes.
Configs ==
    { [creds |-> TRUE,  classify_before_add |-> TRUE,  drop_labels |-> {"marketing", "fyi"}, ai_enabled |-> TRUE],
      [creds |-> TRUE,  classify_before_add |-> TRUE,  drop_labels |-> {"actionable"},       ai_enabled |-> TRUE],
      [creds |-> TRUE,  classify_before_add |-> FALSE, drop_labels |-> {"marketing", "fyi"}, ai_enabled |-> FALSE],
      [creds |-> FALSE, classify_before_add |-> TRUE,  drop_labels |-> {"marketing", "fyi"}, ai_enabled |-> TRUE] }

VARIABLES
    cfg,            \* the loaded configuration
    mailTop,        \* the mailbox holds the messages with UID 1..mailTop
    tasks,          \* table tasks: a set of rows
    nextId,         \* sqlite AUTOINCREMENT sequence of tasks.id
    processed,      \* table processed_uids
    meta_last_uid,  \* metadata row 'last_uid' (0: no row, get_metadata's default "0")
    status,         \* StickyUI.status_var, the single-slot status
    now,            \* datetime.utcnow()
    th,             \* per thread: position and locals of check_mail
    gh,             \* per thread: history of the running cycle (observation only)
    droppedIds,     \* UIDs some cycle dropped by classification (observation only)
    crashed,        \* the process was killed and restarted at least once (observation only)
    cursorHigh,     \* the largest value the cursor ever had (observation only)
    deletedUids,    \* email_uid of the rows delete_task removed (observation only)
    uiPc,           \* position of the Tk main-loop thread
    view,           \* what refresh_ui last obtained from list_active_tasks
    msgN            \* the count the open "Archive Completed" message box shows (NULL: no box)

vars == <<cfg, mailTop, tasks, nextId, processed, meta_last_uid, status, now,
          th, gh, droppedIds, crashed, cursorHigh, deletedUids, uiPc, view, msgN>>

durable == <<tasks, nextId, processed, meta_last_uid>>
uivars == <<uiPc, view, msgN>>

\* ------------------------------------------------------------ pure helpers
RECURSIVE SetMax(_)
SetMax(S) == IF S = {} THEN 0
             ELSE LET x == CHOOSE y \in S : TRUE
                      m == SetMax(S \ {x})
                  IN IF x > m THEN x ELSE m

SetMin(S) == CHOOSE x \in S : \A y \in S : x <= y

\* sorted(uids, key=int): ascending sequence of a set of UIDs
RECURSIVE SortedUids(_)
SortedUids(S) == IF S = {} THEN <<>>
                 ELSE <<SetMin(S)>> \o SortedUids(S \ {SetMin(S)})

\* the orders in which a search reply can list the set S of UIDs
Orders(S) ==
    {q \in [1..Cardinality(S) -> S] : \A a, b \in 1..Cardinality(S) : a # b => q[a] # q[b]}

\* the reply taken as it comes
sorted_AsReceived(data) == data

\* line 349: uids = sorted(uids, key=lambda s: int(s))
sorted(data) == SortedUids({data[i] : i \in 1..Len(data)})

\* max(max_seen_uid, int(uid_s))
PyMax(a, b) == IF b > a THEN b ELSE a

\* is_uid_processed(uid)
is_uid_processed(uid) == uid \in processed

\* M.uid("search", None, "(UID last_uid+1:*)"): the UIDs above the cursor; a
\* range n:* also matches the mailbox's highest UID when n is above it
\* (RFC 3501), which servers do (star = TRUE) or do not apply.
SearchUids(last, star) ==
    {u \in 1..mailTop : u > last} \cup (IF star /\ mailTop > 0 THEN {mailTop} ELSE {})

\* ai_classify_label: <<label, mode>>.  avail: SDK importable and API key
\* present; raises: the remote call throws; the reply text is abstracted to
\* whether it contains "market" / "fyi".
ai_classify_label(avail, raises, hasMarket, hasFyi) ==
    IF ~avail THEN <<"actionable", "OFF">>
    ELSE IF raises THEN <<"actionable", "FALLBACK">>
    ELSE IF hasMarket THEN <<"marketing", "ON">>
    ELSE IF hasFyi THEN <<"fyi", "ON">>
    ELSE <<"actionable", "ON">>

\* the mode llm_summary / the heuristic branch of check_mail reports
summary_mode(ai_enabled, avail, raises) ==
    IF ~ai_enabled THEN "OFF"
    ELSE IF ~avail THEN "OFF"
    ELSE IF raises THEN "FALLBACK"
    ELSE "ON"

\* ------------------------------------------------------------------- init
IdleThread ==
    [pc |-> "idle", last_uid |-> 0, uids |-> <<>>, max_seen_uid |-> 0,
     dropped |-> 0, new_count |-> 0, last_ai_mode |-> NoMode,
     cls_label |-> "actionable", cls_mode |-> "OFF"]

NoFault == "none"

NoHistory ==
    [presented |-> {}, doneAtStart |-> {}, droppedAtStart |-> {}, failed |-> {},
     alone |-> TRUE, cursor |-> 0, high |-> 0, created |-> 0, fault |-> NoFault]

EmptyView == [rows |-> <<>>, active_count |-> 0, completed_count |-> 0, cutoff |-> NULL]

Init ==
    /\ cfg \in Configs
    /\ mailTop = 0
    /\ tasks = {}
    /\ nextId = 1
    /\ processed = {}
    /\ meta_last_uid = 0
    /\ status = <<"AI ?">>
    /\ now = 0
    /\ th = [p \in Threads |-> IdleThread]
    /\ gh = [p \in Threads |-> NoHistory]
    /\ droppedIds = {}
    /\ crashed = FALSE
    /\ cursorHigh = 0
    /\ deletedUids = {}
    /\ uiPc = "idle"
    /\ view = EmptyView
    /\ msgN = NULL


\* ------------------------------------------------------ GmailPoller threads
InCycle(p) == th[p].pc \in {"loop", "drop", "add", "insert", "mark", "logout"}

\* the uid the for-loop of check_mail is at
CurUid(p) == Head(th[p].uids)

\* `continue` / end of the loop body: on to the next uid
NextUid(t) == [t EXCEPT !.pc = "loop", !.uids = Tail(t.uids)]

Faults == {"connect", "fetch", "insert", "logout"}

\* check_mail returns (lines 327, 341, 347, 436): the poller thread goes to
\* its time.sleep, the worker thread ends
Abort(p) ==
    /\ th' = [th EXCEPT ![p] = IdleThread]
    /\ gh' = [gh EXCEPT ![p] = NoHistory]

\* an exception leaves check_mail and lands in the except clause of
\* GmailPoller.run (line 311) or StickyUI._poll_once (line 579)
Raise(p, kind) ==
    /\ th' = [th EXCEPT ![p] = [IdleThread EXCEPT !.pc = "caught"]]
    /\ gh' = [gh EXCEPT ![p].fault = kind]

\* Caught where the exception is not handled: the thread is gone
Caught_Unhandled(p) ==
    /\ th[p].pc = "caught"
    /\ th' = [th EXCEPT ![p].pc = "dead"]
    /\ gh' = [gh EXCEPT ![p] = NoHistory]
    /\ UNCHANGED <<cfg, mailTop, durable, status, now, droppedIds, crashed, cursorHigh, deletedUids, uivars>>

\* the except clause: log.exception, then time.sleep (run) or the end of the
\* worker thread (_poll_once)
Caught(p) ==
    /\ th[p].pc = "caught"
    /\ Abort(p)
    /\ UNCHANGED <<cfg, mailTop, durable, status, now, droppedIds, crashed, cursorHigh, deletedUids, uivars>>

\* GmailPoller.run: the thread starts, or time.sleep returns, and the loop
\* calls check_mail
PollerWake ==
    /\ th[0].pc = "idle"
    /\ th' = [th EXCEPT ![0].pc = "begin"]
    /\ UNCHANGED <<cfg, mailTop, durable, status, now, gh, droppedIds, crashed, cursorHigh, deletedUids, uivars>>

\* StickyUI.poll_now -> _poll_once up to the call of check_mail
PollNow(p) ==
    /\ p \in Manual
    /\ uiPc = "idle"
    /\ th[p].pc = "idle"
    /\ th' = [th EXCEPT ![p].pc = "begin"]
    /\ status' = <<"Manual poll">>
    /\ UNCHANGED <<cfg, mailTop, durable, now, gh, droppedIds, crashed, cursorHigh, deletedUids, uivars>>

\* the history record of a cycle that enters its loop, and the mark on the
\* cycles it overlaps
EnterHistory(p, S) ==
    [q \in Threads |->
        IF q = p
        THEN [presented |-> S, doneAtStart |-> S \cap processed,
              droppedAtStart |-> S \cap droppedIds, failed |-> {},
              alone |-> \A r \in Threads \ {p} : ~InCycle(r),
              cursor |-> meta_last_uid, high |-> cursorHigh, created |-> 0,
              fault |-> NoFault]
        ELSE IF InCycle(q) THEN [gh[q] EXCEPT !.alone = FALSE] ELSE gh[q]]

\* check_mail from its first line to the start of the for-loop
CheckMailBegin(p) ==
    /\ th[p].pc = "begin"
    /\ \/ /\ ~cfg.creds
          /\ status' = <<"IMAP OFF">>
          /\ Abort(p)
       \/ /\ cfg.creds
          /\ UNCHANGED status     \* IMAP4_SSL / login / select / search raises
          /\ Raise(p, "connect")
       \/ /\ cfg.creds            \* search answers NO / BAD
          /\ status' = <<"IMAP ERR">>
          /\ Abort(p)
       \/ /\ cfg.creds
          /\ \E star \in BOOLEAN :
               LET S == SearchUids(meta_last_uid, star) IN
               IF S = {}
               THEN /\ status' = <<"IMAP OK (no new)">>
                    /\ Abort(p)
               ELSE /\ UNCHANGED status
                    /\ \E data \in Orders(S) :
                         th' = [th EXCEPT ![p] =
                                  [IdleThread EXCEPT !.pc = "loop",
                                                     !.last_uid = meta_last_uid,
                                                     !.uids = sorted(data),
                                                     !.max_seen_uid = meta_last_uid]]
                    /\ gh' = EnterHistory(p, S)
    /\ UNCHANGED <<cfg, mailTop, durable, now, droppedIds, crashed, cursorHigh, deletedUids, uivars>>

\* one pass of the loop body from is_uid_processed to the classification
\* verdict and the summary (all of it local to the thread but the one read)

\* LoopSkip that continues without raising max_seen_uid
LoopSkip_NoMax(p) ==
    /\ th[p].pc = "loop" /\ th[p].uids # <<>>
    /\ is_uid_processed(CurUid(p))
    /\ th' = [th EXCEPT ![p] = NextUid(th[p])]
    /\ UNCHANGED <<cfg, mailTop, durable, status, now, gh, droppedIds, crashed, cursorHigh, deletedUids, uivars>>

\* lines 362-364: the uid is in processed_uids; max_seen_uid, continue
LoopSkip(p) ==
    /\ th[p].pc = "loop" /\ th[p].uids # <<>>
    /\ is_uid_processed(CurUid(p))
    /\ th' = [th EXCEPT ![p] =
                NextUid([th[p] EXCEPT !.max_seen_uid = PyMax(th[p].max_seen_uid, CurUid(p))])]
    /\ UNCHANGED <<cfg, mailTop, durable, status, now, gh, droppedIds, crashed, cursorHigh, deletedUids, uivars>>

\* LoopFetchFail that raises max_seen_uid before it continues
LoopFetchFail_Advance(p) ==
    /\ th[p].pc = "loop" /\ th[p].uids # <<>>
    /\ ~is_uid_processed(CurUid(p))
    /\ th' = [th EXCEPT ![p] =
                NextUid([th[p] EXCEPT !.max_seen_uid = PyMax(th[p].max_seen_uid, CurUid(p))])]
    /\ gh' = [gh EXCEPT ![p].failed = @ \cup {CurUid(p)}]
    /\ UNCHANGED <<cfg, mailTop, durable, status, now, droppedIds, crashed, cursorHigh, deletedUids, uivars>>

LoopFetchFail(p) ==
    /\ th[p].pc = "loop" /\ th[p].uids # <<>>
    /\ ~is_uid_processed(CurUid(p))
    /\ th' = [th EXCEPT ![p] = NextUid(th[p])]
    /\ gh' = [gh EXCEPT ![p].failed = @ \cup {CurUid(p)}]
    /\ UNCHANGED <<cfg, mailTop, durable, status, now, droppedIds, crashed, cursorHigh, deletedUids, uivars>>

\* LoopFetchRaise that saves the running maximum before the exception leaves
LoopFetchRaise_Save(p) ==
    /\ th[p].pc = "loop" /\ th[p].uids # <<>>
    /\ ~is_uid_processed(CurUid(p))
    /\ meta_last_uid' = th[p].max_seen_uid
    /\ cursorHigh' = PyMax(cursorHigh, meta_last_uid')
    /\ Raise(p, "fetch")
    /\ UNCHANGED <<cfg, mailTop, tasks, nextId, processed, status, now, droppedIds, crashed, deletedUids, uivars>>

\* M.uid("fetch", ...) raises (line 366: no try around it)
LoopFetchRaise(p) ==
    /\ th[p].pc = "loop" /\ th[p].uids # <<>>
    /\ ~is_uid_processed(CurUid(p))
    /\ Raise(p, "fetch")
    /\ UNCHANGED <<cfg, mailTop, durable, status, now, droppedIds, crashed, cursorHigh, deletedUids, uivars>>

\* cls_label in drop_set, for a classified message
Dropped(classify, label, drop_set) == classify /\ label \in drop_set

LoopFetched(p) ==
    /\ th[p].pc = "loop" /\ th[p].uids # <<>>
    /\ ~is_uid_processed(CurUid(p))
    /\ \E avail \in BOOLEAN, raises \in BOOLEAN, hasMarket \in BOOLEAN, hasFyi \in BOOLEAN :
         LET c == ai_classify_label(avail, raises, hasMarket, hasFyi) IN
         IF Dropped(cfg.classify_before_add, c[1], cfg.drop_labels)
         THEN th' = [th EXCEPT ![p].pc = "drop", ![p].cls_label = c[1], ![p].cls_mode = c[2]]
         ELSE \E sraises \in BOOLEAN :
                th' = [th EXCEPT ![p].pc = "add",
                                 ![p].last_ai_mode = summary_mode(cfg.ai_enabled, avail, sraises)]
    /\ UNCHANGED <<cfg, mailTop, durable, status, now, gh, droppedIds, crashed, cursorHigh, deletedUids, uivars>>

\* DropMark without its mark_uid_processed
DropMark_NoMark(p) ==
    /\ th[p].pc = "drop"
    /\ droppedIds' = droppedIds \cup {CurUid(p)}
    /\ th' = [th EXCEPT ![p] =
                NextUid([th[p] EXCEPT !.dropped = @ + 1,
                                      !.max_seen_uid = PyMax(th[p].max_seen_uid, CurUid(p))])]
    /\ UNCHANGED <<cfg, mailTop, durable, status, now, gh, crashed, cursorHigh, deletedUids, uivars>>

\* lines 410-413: dropped += 1; mark_uid_processed; max_seen_uid; continue
DropMark(p) ==
    /\ th[p].pc = "drop"
    /\ processed' = processed \cup {CurUid(p)}
    /\ droppedIds' = droppedIds \cup {CurUid(p)}
    /\ th' = [th EXCEPT ![p] =
                NextUid([th[p] EXCEPT !.dropped = @ + 1,
                                      !.max_seen_uid = PyMax(th[p].max_seen_uid, CurUid(p))])]
    /\ UNCHANGED <<cfg, mailTop, tasks, nextId, meta_last_uid, status, now, gh, crashed, cursorHigh, deletedUids, uivars>>

\* add_task, line 90: the duplicate test
AddTaskCheck(p) ==
    /\ th[p].pc = "add"
    /\ IF is_uid_processed(CurUid(p))
       THEN th' = [th EXCEPT ![p] =
                     NextUid([th[p] EXCEPT !.max_seen_uid = PyMax(th[p].max_seen_uid, CurUid(p))])]
       ELSE th' = [th EXCEPT ![p].pc = "insert"]
    /\ UNCHANGED <<cfg, mailTop, durable, status, now, gh, droppedIds, crashed, cursorHigh, deletedUids, uivars>>

NewTask(id, uid) ==
    [id |-> id, email_uid |-> uid, is_completed |-> FALSE,
     completed_at |-> NULL, archived_at |-> NULL]

\* add_task, lines 93-96: INSERT INTO tasks; commit
AddTaskInsert(p) ==
    /\ th[p].pc = "insert"
    /\ nextId <= MaxTasks
    /\ tasks' = tasks \cup {NewTask(nextId, CurUid(p))}
    /\ nextId' = nextId + 1
    /\ th' = [th EXCEPT ![p].pc = "mark"]
    /\ gh' = [gh EXCEPT ![p].created = @ + 1]
    /\ UNCHANGED <<cfg, mailTop, processed, meta_last_uid, status, now, droppedIds, crashed, cursorHigh, deletedUids, uivars>>

\* the INSERT raises (sqlite3.OperationalError): the exception leaves add_task
\* and check_mail
AddTaskInsertRaise(p) ==
    /\ th[p].pc = "insert"
    /\ Raise(p, "insert")
    /\ UNCHANGED <<cfg, mailTop, durable, status, now, droppedIds, crashed, cursorHigh, deletedUids, uivars>>

\* add_task, lines 97-100 and check_mail lines 425-431
AddTaskMark(p) ==
    /\ th[p].pc = "mark"
    /\ processed' = processed \cup {CurUid(p)}
    /\ th' = [th EXCEPT ![p] =
                NextUid([th[p] EXCEPT !.max_seen_uid = PyMax(th[p].max_seen_uid, CurUid(p))])]
    /\ UNCHANGED <<cfg, mailTop, tasks, nextId, meta_last_uid, status, now, gh, droppedIds, crashed, cursorHigh, deletedUids, uivars>>

\* SaveCursor that persists the largest uid the search presented
SaveCursor_Top(p) ==
    /\ th[p].pc = "loop" /\ th[p].uids = <<>>
    /\ meta_last_uid' = PyMax(th[p].max_seen_uid, SetMax(gh[p].presented))
    /\ cursorHigh' = PyMax(cursorHigh, meta_last_uid')
    /\ th' = [th EXCEPT ![p].pc = "logout"]
    /\ UNCHANGED <<cfg, mailTop, tasks, nextId, processed, status, now, gh, droppedIds, crashed, deletedUids, uivars>>

\* line 433: save_metadata("last_uid", str(max_seen_uid))
SaveCursor(p) ==
    /\ th[p].pc = "loop" /\ th[p].uids = <<>>
    /\ meta_last_uid' = th[p].max_seen_uid
    /\ cursorHigh' = PyMax(cursorHigh, meta_last_uid')
    /\ th' = [th EXCEPT ![p].pc = "logout"]
    /\ UNCHANGED <<cfg, mailTop, tasks, nextId, processed, status, now, gh, droppedIds, crashed, deletedUids, uivars>>

\* lines 434-436: M.logout(), then the status callback
Logout(p) ==
    /\ th[p].pc = "logout"
    /\ \/ /\ UNCHANGED status   \* logout raises
          /\ Raise(p, "logout")
       \/ /\ status' = IF th[p].last_ai_mode # NoMode
                       THEN <<"AI", th[p].last_ai_mode, th[p].new_count, th[p].dropped>>
                       ELSE status
          /\ Abort(p)
    /\ UNCHANGED <<cfg, mailTop, durable, now, droppedIds, crashed, cursorHigh, deletedUids, uivars>>

\* ------------------------------------------------------------ environment
\* a message arrives: the server assigns the next UID
Arrive ==
    /\ mailTop < MaxUid
    /\ mailTop' = mailTop + 1
    /\ UNCHANGED <<cfg, durable, status, now, th, gh, droppedIds, crashed, cursorHigh, deletedUids, uivars>>

Tick ==
    /\ now < MaxTime
    /\ now' = now + 1
    /\ UNCHANGED <<cfg, mailTop, durable, status, th, gh, droppedIds, crashed, cursorHigh, deletedUids, uivars>>

\* ------------------------------------------------- persistence: lifecycle
\* WHERE archived_at IS NULL
Unarchived(T) == {r \in T : r.archived_at = NULL}

\* ORDER BY id DESC alone
RowBefore_IdOnly(r, s) == r.id > s.id

\* ORDER BY is_completed, id DESC: is r before s
RowBefore(r, s) ==
    \/ (~r.is_completed /\ s.is_completed)
    \/ (r.is_completed = s.is_completed /\ r.id > s.id)

RECURSIVE OrderRows(_)
OrderRows(T) ==
    IF T = {} THEN <<>>
    ELSE LET first == CHOOSE r \in T : \A s \in T \ {r} : RowBefore(r, s)
         IN <<[id |-> first.id, done |-> first.is_completed]>> \o OrderRows(T \ {first})

\* ArchiveDue with the cutoff comparison made inclusive
ArchiveDue_Inclusive(r, t, w) ==
    r.is_completed /\ r.completed_at # NULL /\ r.completed_at <= t - w

\* list_active_tasks lines 111-115: the row is due for archival at time t
\* with retention window w (cutoff = utcnow() - timedelta(hours=w))
ArchiveDue(r, t, w) ==
    r.is_completed /\ r.completed_at # NULL /\ r.completed_at < t - w

\* ArchiveStale that archives one due row per call (the one with the least id)
ArchiveStale_OnePerCall(T, t, w) ==
    LET due == {r \in T : r.archived_at = NULL /\ ArchiveDue(r, t, w)} IN
    {IF r \in due /\ (\A s \in due : r.id <= s.id)
     THEN [r EXCEPT !.archived_at = t] ELSE r : r \in T}

\* list_active_tasks lines 103-126: select, archive what is due, select again
ArchiveStale(T, t, w) ==
    {IF r.archived_at = NULL /\ ArchiveDue(r, t, w)
     THEN [r EXCEPT !.archived_at = t] ELSE r : r \in T}

\* list_active_tasks(w, return_counts=True) called at time t on table T with
\* no other statement in between: the table it leaves and what it returns
list_active_tasks(T, t, w) ==
    LET T1 == ArchiveStale(T, t, w) IN
    [tasks |-> T1,
     rows |-> OrderRows(Unarchived(T1)),
     active_count |-> Cardinality({r \in Unarchived(T1) : ~r.is_completed}),
     completed_count |-> Cardinality({r \in Unarchived(T1) : r.is_completed})]

\* mark_task_completed whose un-complete branch leaves completed_at in place
mark_task_completed_KeepStamp(T, task_id, done, t) ==
    {IF r.id = task_id
     THEN [r EXCEPT !.is_completed = done,
                    !.completed_at = IF done THEN t ELSE @]
     ELSE r : r \in T}

\* mark_task_completed(task_id, done)
mark_task_completed(T, task_id, done, t) ==
    {IF r.id = task_id
     THEN [r EXCEPT !.is_completed = done,
                    !.completed_at = IF done THEN t ELSE NULL]
     ELSE r : r \in T}

\* delete_task(task_id)
delete_task(T, task_id) == {r \in T : r.id # task_id}

\* archive_all_completed_now with the retention test of list_active_tasks
archive_all_completed_now_Due(T, t) == ArchiveStale(T, t, RetentionW)

\* archive_all_completed_now: the table after the UPDATE
archive_all_completed_now(T, t) ==
    {IF r.archived_at = NULL /\ r.is_completed
     THEN [r EXCEPT !.archived_at = t] ELSE r : r \in T}

\* archive_all_completed_now: cur.rowcount of the UPDATE, the value returned
archive_all_completed_count(T) ==
    Cardinality({r \in T : r.archived_at = NULL /\ r.is_completed})

\* ------------------------------------------------------ Tk main-loop thread
\* the checkbox of a displayed row: mark_task_completed(t, v.get()), refresh_ui
ToggleCompleted(i) ==
    /\ uiPc = "idle"
    /\ i \in 1..Len(view.rows)
    /\ tasks' = mark_task_completed(tasks, view.rows[i].id, ~view.rows[i].done, now)
    /\ uiPc' = "rows"
    /\ UNCHANGED <<cfg, mailTop, nextId, processed, meta_last_uid, status, now,
                   th, gh, droppedIds, crashed, cursorHigh, deletedUids, view, msgN>>

\* DeleteTask that also removes the row's email_uid from processed_uids
DeleteTask_Unmark(i) ==
    /\ uiPc = "idle"
    /\ i \in 1..Len(view.rows)
    /\ tasks' = delete_task(tasks, view.rows[i].id)
    /\ processed' = processed \ {r.email_uid : r \in {t \in tasks : t.id = view.rows[i].id}}
    /\ deletedUids' = deletedUids \cup {r.email_uid : r \in {t \in tasks : t.id = view.rows[i].id}}
    /\ gh' = [q \in Threads |-> [gh[q] EXCEPT !.alone = FALSE]]
    /\ uiPc' = "rows"
    /\ UNCHANGED <<cfg, mailTop, nextId, meta_last_uid, status, now,
                   th, droppedIds, crashed, cursorHigh, view, msgN>>

\* the delete button of a displayed row: delete_task(t), refresh_ui
DeleteTask(i) ==
    /\ uiPc = "idle"
    /\ i \in 1..Len(view.rows)
    /\ tasks' = delete_task(tasks, view.rows[i].id)
    /\ deletedUids' = deletedUids \cup {r.email_uid : r \in {t \in tasks : t.id = view.rows[i].id}}
    /\ gh' = [q \in Threads |-> [gh[q] EXCEPT !.alone = FALSE]]
    /\ uiPc' = "rows"
    /\ UNCHANGED <<cfg, mailTop, nextId, processed, meta_last_uid, status, now,
                   th, droppedIds, crashed, cursorHigh, view, msgN>>

\* StickyUI.clear_completed_now, lines 552-553: n = archive_all_completed_now()
\* and the modal message box that shows n
ClearCompleted ==
    /\ uiPc = "idle"
    /\ tasks' = archive_all_completed_now(tasks, now)
    /\ msgN' = archive_all_completed_count(tasks)
    /\ uiPc' = "msgbox"
    /\ UNCHANGED <<cfg, mailTop, nextId, processed, meta_last_uid, status, now,
                   th, gh, droppedIds, crashed, cursorHigh, deletedUids, view>>

\* the user closes the message box; clear_completed_now goes on to refresh_ui
CloseBox ==
    /\ uiPc = "msgbox"
    /\ msgN' = NULL
    /\ uiPc' = "rows"
    /\ UNCHANGED <<cfg, mailTop, durable, status, now, th, gh, droppedIds, crashed, cursorHigh,
                   deletedUids, view>>

\* StickyUI.periodic_refresh
PeriodicRefresh ==
    /\ uiPc = "idle"
    /\ uiPc' = "rows"
    /\ UNCHANGED <<cfg, mailTop, durable, status, now, th, gh, droppedIds, crashed, cursorHigh, deletedUids, view, msgN>>

\* ListRows that returns the rows of its first SELECT, without reading again
\* after the UPDATE
ListRows_NoReselect ==
    /\ uiPc = "rows"
    /\ tasks' = ArchiveStale(tasks, now, RetentionW)
    /\ view' = [rows |-> OrderRows(Unarchived(tasks)),
                active_count |-> 0, completed_count |-> 0, cutoff |-> now - RetentionW]
    /\ uiPc' = "counts"
    /\ UNCHANGED <<cfg, mailTop, nextId, processed, meta_last_uid, status, now,
                   th, gh, droppedIds, crashed, cursorHigh, deletedUids, msgN>>

\* list_active_tasks lines 103-126 (called by refresh_ui)
ListRows ==
    /\ uiPc = "rows"
    /\ tasks' = ArchiveStale(tasks, now, RetentionW)
    /\ view' = [rows |-> OrderRows(Unarchived(tasks')),
                active_count |-> 0, completed_count |-> 0, cutoff |-> now - RetentionW]
    /\ uiPc' = "counts"
    /\ UNCHANGED <<cfg, mailTop, nextId, processed, meta_last_uid, status, now,
                   th, gh, droppedIds, crashed, cursorHigh, deletedUids, msgN>>

\* list_active_tasks lines 128-135: the two COUNT(*) statements and the return
ListCounts ==
    /\ uiPc = "counts"
    /\ view' = [view EXCEPT
                  !.active_count = Cardinality({r \in Unarchived(tasks) : ~r.is_completed}),
                  !.completed_count = Cardinality({r \in Unarchived(tasks) : r.is_completed})]
    /\ uiPc' = "idle"
    /\ UNCHANGED <<cfg, mailTop, durable, status, now, th, gh, droppedIds, crashed, cursorHigh, deletedUids, msgN>>

\* the process is killed and started again: threads and widgets are gone, the
\* sqlite file stays.  StickyUI.__init__ runs its first refresh_ui before it
\* starts the poller, so that refresh runs with no other thread alive.
Crash ==
    /\ th' = [p \in Threads |-> IdleThread]
    /\ gh' = [p \in Threads |-> NoHistory]
    /\ status' = <<"AI ?">>
    /\ tasks' = ArchiveStale(tasks, now, RetentionW)
    /\ view' = [rows |-> OrderRows(Unarchived(tasks')),
                active_count |-> Cardinality({r \in Unarchived(tasks') : ~r.is_completed}),
                completed_count |-> Cardinality({r \in Unarchived(tasks') : r.is_completed}),
                cutoff |-> now - RetentionW]
    /\ uiPc' = "idle"
    /\ msgN' = NULL
    /\ crashed' = TRUE
    /\ UNCHANGED <<cfg, mailTop, nextId, processed, meta_last_uid, now, droppedIds, cursorHigh, deletedUids>>

\* ------------------------------------------------------------ specification
PollerStep(p) ==
    \/ CheckMailBegin(p)
    \/ LoopSkip(p)
    \/ LoopFetchFail(p)
    \/ LoopFetchRaise(p)
    \/ LoopFetched(p)
    \/ DropMark(p)
    \/ AddTaskCheck(p)
    \/ AddTaskInsert(p)
    \/ AddTaskInsertRaise(p)
    \/ AddTaskMark(p)
    \/ SaveCursor(p)
    \/ Logout(p)
    \/ Caught(p)

UiStep ==
    \/ \E i \in 1..MaxTasks : ToggleCompleted(i)
    \/ \E i \in 1..MaxTasks : DeleteTask(i)
    \/ ClearCompleted
    \/ CloseBox
    \/ PeriodicRefresh
    \/ ListRows
    \/ ListCounts

Next ==
    \/ \E p \in Threads : PollerStep(p)
    \/ PollerWake
    \/ \E p \in Manual : PollNow(p)
    \/ UiStep
    \/ Arrive
    \/ Tick
    \/ Crash

Spec == Init /\ [][Next]_vars

\* Restrictions of Next: every behaviour of one of these is a behaviour of Spec.
\* Overlapping cycles: the poller thread and the manual workers, no restart.
NextOverlap ==
    \/ \E p \in Threads : PollerStep(p)
    \/ PollerWake
    \/ \E p \in Manual : PollNow(p)
    \/ Arrive

SpecOverlap == Init /\ [][NextOverlap]_vars

\* Kill and restart: the poller thread alone, killed at any point.
NextRestart ==
    \/ PollerStep(0)
    \/ PollerWake
    \/ Arrive
    \/ Crash

SpecRestart == Init /\ [][NextRestart]_vars

\* Lifecycle: the Tk thread and the clock, next to the poller thread.
NextLife ==
    \/ PollerStep(0)
    \/ PollerWake
    \/ UiStep
    \/ Arrive
    \/ Tick

SpecLife == Init /\ [][NextLife]_vars

\* Delete across a restart: the poller thread, killed at any point, and the
\* delete button with the refresh that follows it.
NextRemove ==
    \/ PollerStep(0)
    \/ PollerWake
    \/ Arrive
    \/ Crash
    \/ \E i \in 1..MaxTasks : DeleteTask(i)
    \/ ListRows
    \/ ListCounts

SpecRemove == Init /\ [][NextRemove]_vars

\* Retry: the poller thread next to manual cycles that end before their loop
\* (no credentials, a connect that raises, a search that is refused or empty).
NextRetry ==
    \/ PollerStep(0)
    \/ PollerWake
    \/ Arrive
    \/ \E p \in Manual : PollNow(p)
    \/ \E p \in Manual : CheckMailBegin(p) /\ th'[p].pc # "loop"
    \/ \E p \in Manual : Caught(p)

\* The rows a tasks table can hold for one id when the program starts over an
\* existing database at time 0: incomplete, completed, or completed and
\* archived (two rows can have the same email_uid: C1, C4).
StoredRows(id) ==
    UNION {{NewTask(id, u),
            [NewTask(id, u) EXCEPT !.is_completed = TRUE, !.completed_at = 0],
            [NewTask(id, u) EXCEPT !.is_completed = TRUE, !.completed_at = 0,
                                   !.archived_at = 0]} : u \in Uids}

\* every table with at most one row per id (id is the PRIMARY KEY)
Tables ==
    UNION {{ {f[id] : id \in D} :
               f \in {g \in [D -> UNION {StoredRows(id) : id \in D}] :
                         \A id \in D : g[id].id = id} }
           : D \in SUBSET (1..MaxTasks)}

\* StickyUI.__init__ over a database earlier runs left behind: every message
\* of the mailbox was handled, some rows were deleted since.
InitStored ==
    /\ cfg \in Configs
    /\ mailTop = MaxUid
    /\ tasks \in Tables
    /\ nextId = MaxTasks + 1
    /\ processed = Uids
    /\ meta_last_uid = MaxUid
    /\ status = <<"AI ?">>
    /\ now = 0
    /\ th = [p \in Threads |-> IdleThread]
    /\ gh = [p \in Threads |-> NoHistory]
    /\ droppedIds = {}
    /\ crashed = TRUE
    /\ cursorHigh = MaxUid
    /\ deletedUids = {}
    /\ uiPc = "idle"
    /\ view = [rows |-> OrderRows(Unarchived(tasks)),
               active_count |-> Cardinality({r \in Unarchived(tasks) : ~r.is_completed}),
               completed_count |-> Cardinality({r \in Unarchived(tasks) : r.is_completed}),
               cutoff |-> now - RetentionW]
    /\ msgN = NULL

\* The Tk thread and the clock over such a database, the poller asleep.
NextStored ==
    \/ UiStep
    \/ Tick

SpecStored == InitStored /\ [][NextStored]_vars

\* Scheduling: the operating system runs every thread that can run, and
\* time.sleep returns.  The poller thread takes its next step and wakes up.
SpecRetry ==
    Init /\ [][NextRetry]_vars /\ WF_vars(PollerStep(0)) /\ WF_vars(PollerWake)


\* ------------------------------------------------------------------ claims
RecordsOf(u) == {r \in tasks : r.email_uid = u}

\* C1: exactly-once ingestion.  Whatever cycles ran, overlapping or not, the
\* store never holds two records with the same email_uid.
ExactlyOnceIngestion ==
    \A r1 \in tasks, r2 \in tasks : r1.email_uid = r2.email_uid => r1.id = r2.id

\* C2: cursor monotonicity.  No step lowers the persisted cursor (metadata
\* last_uid), also when a manual cycle overlaps another cycle.
CursorNeverRegresses == [][meta_last_uid' >= meta_last_uid]_vars

\* C3: mutual exclusion of cycles.  At most one thread is inside check_mail
\* (past its search, before its return) at any moment.
OneCycleAtATime ==
    \A p \in Threads, q \in Threads : InCycle(p) /\ InCycle(q) => p = q

\* C4: crash safety.  After the process was killed inside a cycle and
\* restarted, no source message id has more than one record.
CrashSafeNoDuplicate ==
    crashed => \A u \in Uids : Cardinality(RecordsOf(u)) <= 1

\* C5: fail-open classification.  A message the classification step drops was
\* labelled by a classifier call that succeeded (mode ON): with the classifier
\* unavailable (OFF) or failing (FALLBACK) nothing is dropped, whatever the
\* configured drop set.
FailOpenNeverDrops ==
    \A p \in Threads : th[p].pc = "drop" => th[p].cls_mode = "ON"


InRows(v, id) == \E i \in 1..Len(v.rows) : v.rows[i].id = id

\* C6 as claimed: a read of list_active_tasks at time t returns a record that
\* is completed since T (still in the store, not archived) exactly when
\* t < T + W; at t = T + W and later it is absent.
RetentionBoundaryAsClaimed ==
    [][ListRows =>
         \A r \in tasks :
            (r.archived_at = NULL /\ r.is_completed) =>
               (InRows(view', r.id) <=> now < r.completed_at + RetentionW)]_vars

\* C6 amended: the record is returned by every read at t <= T + W and absent
\* from every read at t > T + W (the read at exactly T + W still returns it).
RetentionBoundary ==
    [][ListRows =>
         \A r \in tasks :
            (r.archived_at = NULL /\ r.is_completed) =>
               (InRows(view', r.id) <=> now <= r.completed_at + RetentionW)]_vars

\* C6 witness: a read made at exactly t = T + W (cutoff = T) has just
\* returned the completed record.
RetentionBoundaryReached ==
    /\ uiPc = "counts"
    /\ \E r \in tasks :
         /\ r.is_completed /\ r.archived_at = NULL
         /\ view.cutoff = r.completed_at
         /\ InRows(view, r.id)

\* C7: complete ingestion.  A cycle that ran alone from cursor c, was
\* presented only ids above c of which none was in processed_uids, had no
\* fetch failure, with classification disabled, and has saved its cursor:
\* exactly one record exists for each presented id, each presented id is in
\* processed_uids, and the cursor is the largest presented id.
CompleteIngestionAlone ==
    \A p \in Threads :
       ( /\ th[p].pc = "logout"
         /\ gh[p].alone
         /\ ~cfg.classify_before_add
         /\ gh[p].failed = {}
         /\ gh[p].doneAtStart = {}
         /\ \A u \in gh[p].presented : u > th[p].last_uid )
       => /\ \A u \in gh[p].presented :
               Cardinality(RecordsOf(u)) = 1 /\ u \in processed
          /\ meta_last_uid = SetMax(gh[p].presented)

\* C8: drop is final.  The drop step adds the id to processed_uids, raises
\* the cycle's dropped count by one and creates no record; a cycle that
\* started after the id was dropped never inserts a record for it.
DropIsFinal ==
    [][\A p \in Threads :
         /\ (th[p].pc = "drop" /\ th'[p].pc = "loop") =>
              /\ CurUid(p) \in processed'
              /\ th'[p].dropped = th[p].dropped + 1
              /\ tasks' = tasks
         /\ (th[p].pc = "insert" /\ th'[p].pc = "mark") =>
              CurUid(p) \notin gh[p].droppedAtStart]_vars

\* C8 witness: a cycle that started after an id was dropped was presented that
\* id again and has finished its loop; the id has no record.
DropIsFinalReached ==
    \E p \in Threads :
       /\ th[p].pc = "logout"
       /\ \E u \in gh[p].droppedAtStart : u \in processed /\ RecordsOf(u) = {}

\* C9: idempotent skip.  A cycle presented an id that is already in
\* processed_uids skips it without touching the records, never inserts a
\* record for it, and the cursor it saves is at least that id and at least
\* the cursor it started from.
IdempotentSkip ==
    [][\A p \in Threads :
         /\ (th[p].pc = "loop" /\ th[p].uids # <<>> /\ is_uid_processed(CurUid(p))
               /\ th'[p] # th[p] /\ th'[p].pc # "idle") =>
              /\ tasks' = tasks
              /\ th'[p].uids = Tail(th[p].uids)
         /\ (th[p].pc = "insert" /\ th'[p].pc = "mark") =>
              CurUid(p) \notin gh[p].doneAtStart
         /\ (th[p].pc = "loop" /\ th'[p].pc = "logout") =>
              /\ \A u \in gh[p].doneAtStart : meta_last_uid' >= u
              /\ meta_last_uid' >= th[p].last_uid]_vars

\* C9 witness: a cycle that was presented an already processed id has saved
\* its cursor.
IdempotentSkipReached ==
    \E p \in Threads :
       /\ th[p].pc = "logout"
       /\ gh[p].doneAtStart # {}
       /\ \A u \in gh[p].doneAtStart : meta_last_uid >= u /\ Cardinality(RecordsOf(u)) <= 1

\* a fetch failure continues the loop and leaves processed_uids and the
\* records alone
FetchFailureSkips(p) ==
    (th[p].pc = "loop" /\ gh'[p].failed \ gh[p].failed # {}) =>
       /\ processed' = processed
       /\ tasks' = tasks
       /\ th'[p].pc = "loop"
       /\ th'[p].uids = Tail(th[p].uids)

\* C10 as claimed: a fetch failure continues the cycle without marking the
\* id, and when the cycle saves its cursor every id whose fetch failed (and
\* that nobody processed meanwhile) is above the cursor, so the next search
\* presents it again.
FetchFailureRetriedAsClaimed ==
    [][\A p \in Threads :
         /\ FetchFailureSkips(p)
         /\ (th[p].pc = "loop" /\ th'[p].pc = "logout") =>
              \A f \in gh[p].failed \ processed :
                 f \in SearchUids(meta_last_uid', FALSE)]_vars

\* C10 amended: the id whose fetch failed is searched for by the next cycle
\* exactly when the cycle handled (skipped, dropped or stored) no larger id:
\* otherwise the saved cursor is past it and the UID search leaves it out.
FetchFailureRetried ==
    [][\A p \in Threads :
         /\ FetchFailureSkips(p)
         /\ (th[p].pc = "loop" /\ th'[p].pc = "logout") =>
              \A f \in gh[p].failed :
                 f \in SearchUids(meta_last_uid', FALSE)
                   <=> /\ f > th[p].last_uid
                       /\ \A u \in gh[p].presented \ gh[p].failed : u < f]_vars

\* C10 witness: a cycle has saved its cursor past an id whose fetch failed and
\* that is not in processed_uids.
FetchFailureReached ==
    \E p \in Threads :
       /\ th[p].pc = "logout"
       /\ \E f \in gh[p].failed : f \notin processed /\ f < meta_last_uid

\* C11: store-write failure is contained to one message.  When the INSERT of
\* add_task fails for an id, the id is not added to processed_uids, the cycle
\* goes on with the remaining ids (the for-loop moves to the next uid), and
\* the running maximum the cycle will persist as its cursor still covers the
\* ids it completed earlier.
StoreFailureContained ==
    [][\A p \in Threads :
         (th[p].pc = "insert" /\ th'[p].pc \notin {"insert", "mark"}) =>
            /\ processed' = processed
            /\ th'[p].pc = "loop"
            /\ th'[p].uids = Tail(th[p].uids)
            /\ th'[p].max_seen_uid >= th[p].max_seen_uid]_vars

\* C12: transport abort leaves the cursor alone.  The step that ends a cycle
\* because connecting or logging in raised, because the search answered
\* non-OK, or because a mailbox call raised inside the for-loop does not
\* write the persisted cursor; for a cycle no other cycle overlapped, the
\* cursor after the abort is the cursor the cycle read when it started.
TransportAbortKeepsCursor ==
    [][\A p \in Threads :
         /\ (th[p].pc = "begin" /\ th'[p].pc = "caught") =>
               meta_last_uid' = meta_last_uid
         /\ (th[p].pc = "begin" /\ th'[p].pc = "idle" /\ status' = <<"IMAP ERR">>) =>
               meta_last_uid' = meta_last_uid
         /\ (th[p].pc = "loop" /\ th'[p].pc = "caught") =>
               /\ meta_last_uid' = meta_last_uid
               /\ gh[p].alone => meta_last_uid' = gh[p].cursor]_vars

\* C12 witness: a cycle that ran alone and had already handled an id was
\* ended by a fetch that raised; the persisted cursor is the one it started
\* from.
TransportAbortReached ==
    \E p \in Threads :
       /\ th[p].pc = "caught" /\ gh[p].fault = "fetch" /\ gh[p].alone
       /\ (gh[p].presented \cap processed) \ gh[p].doneAtStart # {}
       /\ meta_last_uid = gh[p].cursor

\* C13: status counts are accurate.  The status a cycle reports at its end
\* (line 436) carries n equal to the number of records the cycle created and
\* d equal to the number of messages it dropped (its dropped counter, which
\* DropIsFinal shows is raised once per drop).
StatusCountsAccurate ==
    [][\A p \in Threads :
         (th[p].pc = "logout" /\ th'[p].pc = "idle" /\ th[p].last_ai_mode # NoMode) =>
            status' = <<"AI", th[p].last_ai_mode, gh[p].created, th[p].dropped>>]_vars

\* the step of thread p that ends its cycle, by a return or by an exception
CycleEnds(p) ==
    /\ th[p].pc \in {"begin", "loop", "drop", "add", "insert", "mark", "logout"}
    /\ th'[p].pc \in {"idle", "caught"}

\* C14: status reflects the last cycle.  When a cycle ends, whatever its
\* outcome, the status slot holds a string of that cycle: never the initial
\* text or the manual-poll placeholder, an IMAP text when the cycle ended
\* before its loop, an error text when it ended by an exception, and the AI
\* text with this cycle's dropped count when it ran its loop to the end.
StatusReflectsLastCycle ==
    [][\A p \in Threads :
         CycleEnds(p) =>
            /\ status' \notin {<<"AI ?">>, <<"Manual poll">>}
            /\ (th[p].pc = "begin" /\ th'[p].pc = "idle") =>
                  status' \in {<<"IMAP OFF">>, <<"IMAP ERR">>, <<"IMAP OK (no new)">>}
            /\ th'[p].pc = "caught" => status' = <<"IMAP ERR">>
            /\ (th[p].pc = "logout" /\ th'[p].pc = "idle") =>
                  /\ status'[1] = "AI"
                  /\ status'[4] = th[p].dropped]_vars

\* C15: idempotent archival.  Two list_active_tasks calls made at the same
\* instant with the same retention window and nothing in between return the
\* same rows and the same two counts, and the second call changes the
\* archived_at of no row: whenever refresh_ui makes the call, a second call
\* on the table the first one left returns what the first returned.
IdempotentArchival ==
    [][ListRows =>
         LET first == list_active_tasks(tasks, now, RetentionW)
             second == list_active_tasks(tasks', now', RetentionW)
         IN /\ tasks' = first.tasks
            /\ view'.rows = first.rows
            /\ second.rows = first.rows
            /\ second.active_count = first.active_count
            /\ second.completed_count = first.completed_count
            /\ \A r \in tasks' : \E s \in second.tasks :
                  s.id = r.id /\ s.archived_at = r.archived_at]_vars

\* C15 witness: refresh_ui has just run list_active_tasks, the call archived
\* a row at this instant and returned others, and a second call now would
\* return what the view holds.
IdempotentArchivalReached ==
    /\ uiPc = "idle"
    /\ view.cutoff = now - RetentionW
    /\ view.rows # <<>>
    /\ \E r \in tasks : r.archived_at = now /\ ArchiveDue(r, now, RetentionW)
    /\ LET second == list_active_tasks(tasks, now, RetentionW)
       IN /\ second.rows = view.rows
          /\ second.active_count = view.active_count
          /\ second.completed_count = view.completed_count
          /\ second.tasks = tasks

\* C16: archival is permanent.  No step clears or changes an archived_at that
\* is set, mark_task_completed on an archived row leaves its archived_at
\* alone, and the rows a list_active_tasks call returns hold no archived row,
\* the rows that very call archived included.
ArchivalPermanent ==
    [][/\ \A r \in tasks : r.archived_at # NULL =>
            /\ \A s \in tasks' : s.id = r.id => s.archived_at = r.archived_at
            /\ \A done \in BOOLEAN :
                  \A s \in mark_task_completed(tasks, r.id, done, now) :
                     s.id = r.id => s.archived_at = r.archived_at
       /\ ListRows =>
            \A r \in tasks' : r.archived_at # NULL => ~InRows(view', r.id)]_vars

\* C16 witness: a list_active_tasks call has just archived a row and left it
\* out of its rows, next to a row archived at an earlier time that is still
\* archived with that time.
ArchivalPermanentReached ==
    /\ uiPc = "counts"
    /\ view.cutoff = now - RetentionW
    /\ \E r \in tasks :
         r.archived_at = now /\ ArchiveDue(r, now, RetentionW) /\ ~InRows(view, r.id)
    /\ \E r \in tasks :
         r.archived_at # NULL /\ r.archived_at < now /\ ~InRows(view, r.id)

\* C17: fault containment and retry.  An exception raised inside a cycle
\* lands in the except clause of its thread and goes no further: the step
\* out of the clause leaves the poller thread sleeping and ends the manual
\* worker, and neither the exception nor its handling touches what the Tk
\* thread holds.  Under fair scheduling the poller thread starts another
\* cycle after every failed one.
FaultContainedAndRetried ==
    /\ [][\A p \in Threads :
            /\ (th[p].pc # "caught" /\ th'[p].pc = "caught") => UNCHANGED <<uivars, status>>
            /\ (th[p].pc = "caught" /\ th'[p] # th[p]) =>
                  th'[p].pc = "idle" /\ UNCHANGED <<uivars, status>>]_vars
    /\ (th[0].pc = "caught") ~> (th[0].pc = "begin")

\* C17 witness: the poller thread is in its except clause after a fault in
\* the middle of a cycle, and a manual worker is in its own.
FaultCaughtReached ==
    /\ th[0].pc = "caught" /\ gh[0].fault \in {"fetch", "insert"}
    /\ \E p \in Manual : th[p].pc = "caught"

\* C18: processed_uids only grows.  No step of a cycle, toggle, archival or
\* delete removes an id from processed_uids.
ProcessedOnlyGrows == [][processed \subseteq processed']_vars

\* C18 witness: the record of a stored id was deleted and the id is still in
\* processed_uids, after the clock moved on.
ProcessedOnlyGrowsReached ==
    /\ now > 0
    /\ \E u \in processed \cap deletedUids : RecordsOf(u) = {}

\* C19: delete is permanent.  delete_task removes the row with the given id
\* whether it is active, completed or archived and leaves every other row as
\* it is, and once a row was deleted no cycle inserts a row for its email_uid
\* again.
DeleteIsPermanent ==
    [][/\ \A r \in tasks : delete_task(tasks, r.id) = tasks \ {r}
       /\ \A i \in 1..MaxTasks :
            DeleteTask(i) => /\ ~\E r \in tasks' : r.id = view.rows[i].id
                             /\ tasks' \subseteq tasks
                             /\ Cardinality(tasks') = Cardinality(tasks) - 1
       /\ \A p \in Threads :
            (th[p].pc = "insert" /\ th'[p].pc = "mark") =>
               CurUid(p) \notin deletedUids]_vars

\* C20: archive_all_completed_now archives exactly the rows that are
\* completed and not archived, whatever their completion age, returns the
\* number of rows it archived in this call, and leaves incomplete rows and
\* rows archived before as they are.
ArchiveAllExact ==
    [][ClearCompleted =>
         /\ \A r \in tasks :
               IF r.is_completed /\ r.archived_at = NULL
               THEN [r EXCEPT !.archived_at = now] \in tasks' /\ r \notin tasks'
               ELSE r \in tasks'
         /\ Cardinality(tasks') = Cardinality(tasks)
         /\ msgN' = Cardinality(tasks' \ tasks)]_vars

\* C20 witness: the message box is open after a call that archived a row
\* completed less than the retention window ago, next to a row that was
\* archived at an earlier time.
ArchiveAllReached ==
    /\ uiPc = "msgbox"
    /\ msgN >= 1
    /\ \E r \in tasks : r.archived_at = now /\ ~ArchiveDue(r, now, RetentionW)
    /\ \E r \in tasks : r.archived_at # NULL /\ r.archived_at < now

\* C21: the cursor advances only over recorded outcomes.  In every reachable
\* state the persisted cursor is its initial value 0 or an id in
\* processed_uids, and the running maximum a cycle is going to persist is the
\* cursor it started from or an id in processed_uids: never an id whose
\* fetch failed or whose outcome is not recorded.
CursorOverRecorded ==
    /\ meta_last_uid = 0 \/ meta_last_uid \in processed
    /\ \A p \in Threads :
          InCycle(p) =>
             /\ th[p].max_seen_uid = th[p].last_uid \/ th[p].max_seen_uid \in processed
             /\ th[p].max_seen_uid \notin gh[p].failed \ processed

\* C21 witness: a cycle in which a fetch failed has persisted a cursor above
\* the one it started from; the cursor is in processed_uids and the failed
\* id is not.
CursorOverRecordedReached ==
    \E p \in Threads :
       /\ th[p].pc = "logout"
       /\ gh[p].failed \ processed # {}
       /\ meta_last_uid > gh[p].cursor
       /\ meta_last_uid \in processed

\* C22: superseded ids are lost.  A cycle that started when the persisted
\* cursor was, or had been, greater than or equal to an id neither fetches
\* that id nor inserts a row for it, also when the id is not in
\* processed_uids because its fetch failed earlier.
SupersededIdsLost ==
    [][\A p \in Threads :
         /\ (th[p].pc = "loop" /\ th[p].uids # <<>> /\ ~is_uid_processed(CurUid(p))
               /\ th'[p] # th[p]) =>
              CurUid(p) > gh[p].high
         /\ (th[p].pc = "insert" /\ th'[p].pc = "mark") =>
              CurUid(p) > gh[p].high]_vars

\* C23: in-cycle creation order.  Whatever order the search listed the ids
\* in, a cycle inserts its rows in ascending order of email_uid: when it
\* inserts the row for an id, every id it still has to handle, so every id
\* it may insert a row for later, is larger.
CreationInIdOrder ==
    [][\A p \in Threads :
         (th[p].pc = "insert" /\ th'[p].pc = "mark") =>
            \A i \in 2..Len(th[p].uids) : th[p].uids[i] > CurUid(p)]_vars

\* C23 witness: a cycle that ran alone is inserting its second row; the row
\* it inserted before is for a smaller id.
CreationInIdOrderReached ==
    \E p \in Threads :
       /\ th[p].pc = "mark" /\ gh[p].alone /\ gh[p].created = 2
       /\ \E r \in tasks, s \in tasks :
             /\ r.id < s.id /\ r.email_uid < s.email_uid
             /\ s.email_uid = CurUid(p)
             /\ r.email_uid \in gh[p].presented \ gh[p].doneAtStart

\* C24: list_active_tasks result shape.  The rows a call returns are exactly
\* the rows whose archived_at is NULL after the call's own archival, each
\* once and with its completion flag, every incomplete row before every
\* completed row and, inside each group, the larger id first.
ListShape ==
    [][ListRows =>
         LET rows == view'.rows
             U == {r \in tasks' : r.archived_at = NULL}
         IN /\ tasks' = ArchiveStale(tasks, now, RetentionW)
            /\ Len(rows) = Cardinality(U)
            /\ \A r \in U : \E i \in 1..Len(rows) :
                  rows[i].id = r.id /\ rows[i].done = r.is_completed
            /\ \A i, j \in 1..Len(rows) :
                  i < j => /\ rows[i].done => rows[j].done
                           /\ rows[i].done = rows[j].done => rows[i].id > rows[j].id]_vars

\* C24 witness: a call has just archived a row and returned an incomplete
\* row ahead of a completed row with a larger id.
ListShapeReached ==
    /\ uiPc = "counts"
    /\ Len(view.rows) >= 2
    /\ \E i \in 1..Len(view.rows) - 1 :
          ~view.rows[i].done /\ view.rows[i + 1].done /\ view.rows[i].id < view.rows[i + 1].id
    /\ \E r \in tasks : r.archived_at = now /\ ArchiveDue(r, now, RetentionW)

\* C25: completion fields move together.  In every state every row has
\* is_completed set exactly when completed_at is set; one step of
\* mark_task_completed(id, TRUE) sets both and of mark_task_completed(id,
\* FALSE) clears both, leaving every other row alone; the row an INSERT of
\* add_task creates has is_completed false and completed_at NULL.
CompletionFieldsTogether ==
    /\ [](\A r \in tasks : r.is_completed <=> r.completed_at # NULL)
    /\ [][/\ \A i \in 1..MaxTasks :
               ToggleCompleted(i) =>
                  LET tid == view.rows[i].id
                      done == ~view.rows[i].done
                  IN /\ {r.id : r \in tasks'} = {r.id : r \in tasks}
                     /\ \A r \in tasks' :
                           IF r.id = tid
                           THEN /\ r.is_completed = done
                                /\ (r.completed_at # NULL) = done
                                /\ done => r.completed_at = now
                           ELSE r \in tasks
          /\ \A p \in Threads :
               (th[p].pc = "insert" /\ th'[p].pc = "mark") =>
                  /\ Cardinality(tasks' \ tasks) = 1
                  /\ \A r \in tasks' \ tasks :
                        ~r.is_completed /\ r.completed_at = NULL]_vars

\* C25 witness: one row is completed and stamped, and a toggle has just
\* cleared both fields of another row the list still shows as done.
CompletionFieldsReached ==
    /\ uiPc = "rows"
    /\ \E r \in tasks : r.is_completed /\ r.completed_at # NULL
    /\ \E i \in 1..Len(view.rows) :
          /\ view.rows[i].done
          /\ \E r \in tasks :
                r.id = view.rows[i].id /\ ~r.is_completed /\ r.completed_at = NULL

\* C26: counts of list_active_tasks match its rows.  Every call that returns
\* hands back an active_count equal to the number of incomplete rows and a
\* completed_count equal to the number of completed rows among the rows of
\* that same call, also when a cycle inserts a row while the call runs.
CountsMatchRows ==
    [][ListCounts =>
         /\ view'.active_count =
               Cardinality({i \in 1..Len(view'.rows) : ~view'.rows[i].done})
         /\ view'.completed_count =
               Cardinality({i \in 1..Len(view'.rows) : view'.rows[i].done})]_vars

====
